---------------------------- MODULE Spec2Model ----------------------------
(***************************************************************************)
(* Vehicle-side controller of the Automatic Bus Administrative System      *)
(* (src/Bus(Slave).ino): gate, link, access, passenger counting, overload  *)
(* and emergency logic, as one state machine.                              *)
(*                                                                         *)
(* One Loop step is one pass of loop().  The four millis() timestamps of   *)
(* the sketch are kept as clocks: sinceX is the value of millis() - X,     *)
(* which is the only way the sketch ever reads X.  A clock is set to 0     *)
(* where the sketch assigns X = millis(), advances with delay() and with   *)
(* the time between two passes (Tick), and saturates one past the largest  *)
(* threshold it is compared with.                                          *)
(*                                                                         *)
(* A pass reads each sensor pin several times (lines 153, 199-200, 367);   *)
(* the model gives a pass one level per pin, reading1 and reading2, which  *)
(* every read of the pass returns.  trace, tx, rx and card record what the *)
(* last pass did, sent, received and scanned, in program order.            *)
(***************************************************************************)
EXTENDS Integers, Sequences, FiniteSets, TLC

\* ------------------------------------------------------------ constants
HIGH == 1
LOW == 0
TIMEOUT_MS == 10000
GATE_BLOCK_CHECK_DELAY_MS == 1500
MAGIC_VALUE == 45003
MAX_NAME_LENGTH == 16
MAX_REGISTERED_CARDS == 5
UID_MAX_SIZE == 10
SEQ_TIMEOUT_MS == 1000
IR_DEBOUNCE_MS == 50
BUZZER_DURATION_MS == 3000
EMERGENCY_TIMEOUT_MS == 5000
SETTLE_DELAY_MS == 6000
TONE_DURATION_MS == 200
OVERLOAD_THRESHOLD == 5
SERVO_CLOSED == 60
SERVO_OPEN == 120
UINT_MOD == 65536
INT_MAX == 32767
BLANK_BYTE == 255

\* ------------------------------------------------------------ bounds
MaxCount == 7
MaxPress == 2
MaxOverload == 2
MaxScan == 2

\* time that may pass between two passes of loop()
Deltas == {500, 1000, 5000}

\* ------------------------------------------------------------ text
Range(f) == {f[i] : i \in DOMAIN f}

Max(a, b) == IF a >= b THEN a ELSE b

Min(a, b) == IF a <= b THEN a ELSE b

DigitChars == <<"0", "1", "2", "3", "4", "5", "6", "7", "8", "9">>

RECURSIVE FormatUnsigned(_)
\* sprintf "%u"
FormatUnsigned(n) ==
    IF n < 10 THEN <<DigitChars[n + 1]>>
    ELSE FormatUnsigned(n \div 10) \o <<DigitChars[(n % 10) + 1]>>

\* sprintf "%d"
FormatInt(n) == IF n < 0 THEN <<"-">> \o FormatUnsigned(-n) ELSE FormatUnsigned(n)

\* String::indexOf(needle) != -1
Contains(hay, needle) ==
    \E k \in 0..(Len(hay) - Len(needle)) :
        \A j \in 1..Len(needle) : hay[k + j] = needle[j]

StartsWith(hay, prefix) ==
    /\ Len(hay) >= Len(prefix)
    /\ \A j \in 1..Len(prefix) : hay[j] = prefix[j]

IsDigit(c) == c \in Range(DigitChars)

DigitValue(c) == CHOOSE d \in 0..9 : DigitChars[d + 1] = c

RECURSIVE atoiDigits(_, _)
atoiDigits(str, acc) ==
    IF str = <<>> \/ ~IsDigit(Head(str)) THEN acc
    ELSE atoiDigits(Tail(str), acc * 10 + DigitValue(Head(str)))

\* atoi: an optional sign and the digits up to the first other character
atoi(str) ==
    IF str # <<>> /\ Head(str) = "-" THEN -atoiDigits(Tail(str), 0) ELSE atoiDigits(str, 0)

RECURSIVE strtok(_, _)
\* the tokens successive strtok calls return: the non-empty runs between delimiters
strtok(str, delim) ==
    IF str = <<>> THEN <<>>
    ELSE IF Head(str) = delim THEN strtok(Tail(str), delim)
    ELSE LET stops == {i \in DOMAIN str : str[i] = delim}
             n == IF stops = {} THEN Len(str) + 1
                  ELSE CHOOSE i \in stops : \A k \in stops : i <= k
         IN  <<SubSeq(str, 1, n - 1)>> \o strtok(SubSeq(str, n + 1, Len(str)), delim)

HelloFromMaster ==
    <<"H", "e", "l", "l", "o", " ", "f", "r", "o", "m", " ", "M", "a", "s", "t", "e", "r">>

SnapshotPrefix == <<"D", ":">>

SentToAdmin ==
    <<"S", "e", "n", "t", " ", "t", "o", " ", "A", "d", "m", "i", "n", ":", " ">>

\* ------------------------------------------------------------ registry
Zeros(n) == [i \in 1..n |-> 0]

\* a byte array initialised from a shorter brace list: the rest is 0
Padded(bytes, n) == bytes \o Zeros(n - Len(bytes))

EmptyCard == [uid |-> Zeros(UID_MAX_SIZE), uidSize |-> 0, name |-> <<>>, scanCount |-> 0]

predefinedUsers ==
    << [uid |-> Padded(<<243, 151, 23, 45>>, UID_MAX_SIZE), uidSize |-> 4,
        name |-> <<"B", "U", "S", " ", "D", "R", "I", "V", "E", "R">>, scanCount |-> 0],
       [uid |-> Padded(<<25, 120, 151, 63>>, UID_MAX_SIZE), uidSize |-> 4,
        name |-> <<"H", "E", "L", "P", "E", "R">>, scanCount |-> 0],
       [uid |-> Padded(<<17, 34, 51, 68>>, UID_MAX_SIZE), uidSize |-> 4,
        name |-> <<"S", "T", "A", "T", "I", "O", "N", " ", "M", "A", "S", "T", "E", "R">>,
        scanCount |-> 0] >>

NUM_PREDEFINED_USERS == Len(predefinedUsers)

\* the cells of a char array in the store: a character, the terminator, the
\* 0xFF of a cell never written, or a byte of the uninitialised part of the
\* local card_to_store, which the sketch writes and never reads back
NUL == "NUL"

BlankChar == "0xFF"

Indeterminate == "?"

\* char name[MAX_NAME_LENGTH + 1] after strcpy(name, str) into an uninitialised array
NameCells(str) ==
    str \o <<NUL>> \o [i \in 1..(MAX_NAME_LENGTH - Len(str)) |-> Indeterminate]

\* the array holds a string: a terminator, and only characters before it
Terminated(cells) ==
    \E i \in DOMAIN cells :
        /\ cells[i] = NUL
        /\ \A j \in 1..(i - 1) : cells[j] \notin {NUL, BlankChar, Indeterminate}

\* the string strcpy(dst, cells) copies: the cells before the first terminator
strcpy(cells) ==
    LET ends == {i \in DOMAIN cells : cells[i] = NUL}
    IN  IF ends = {} THEN cells
        ELSE SubSeq(cells, 1, (CHOOSE i \in ends : \A k \in ends : i <= k) - 1)

\* struct CardForEEPROM: a card without its scanCount
CardForEEPROM(c) == [uid |-> c.uid, uidSize |-> c.uidSize, name |-> NameCells(c.name)]

\* sizeof(CardForEEPROM)
CardBytes == UID_MAX_SIZE + 1 + MAX_NAME_LENGTH + 1

BlankStoredCard ==
    [uid |-> [i \in 1..UID_MAX_SIZE |-> BLANK_BYTE], uidSize |-> BLANK_BYTE,
     name |-> [i \in 1..(MAX_NAME_LENGTH + 1) |-> BlankChar]]

\* an erased EEPROM reads 0xFF in every cell
BlankEEPROM ==
    [magic |-> UINT_MOD - 1, numCards |-> BLANK_BYTE,
     cards |-> [i \in 1..MAX_REGISTERED_CARDS |-> BlankStoredCard]]

\* a marker test that never finds the marker
Initialized_Never(e) == FALSE

\* storedMagicValue != MAGIC_VALUE is false
Initialized(e) == e.magic = MAGIC_VALUE

writePredefinedCardsToEEPROM(e) ==
    [e EXCEPT !.numCards = NUM_PREDEFINED_USERS,
              !.cards = [i \in 1..MAX_REGISTERED_CARDS |->
                            IF i <= NUM_PREDEFINED_USERS
                            THEN CardForEEPROM(predefinedUsers[i])
                            ELSE e.cards[i]]]

\* a load that cuts a stored count above MAX_REGISTERED_CARDS down to it
loadCardsFromEEPROM_NoClamp(e, cards) ==
    LET n == Min(e.numCards, MAX_REGISTERED_CARDS)
    IN  [numLoadedCards |-> n,
         registeredCards |-> [i \in 1..MAX_REGISTERED_CARDS |->
             IF i <= n
             THEN [uid |-> e.cards[i].uid, uidSize |-> e.cards[i].uidSize,
                   name |-> strcpy(e.cards[i].name), scanCount |-> 0]
             ELSE cards[i]]]

\* the (numLoadedCards, registeredCards) pair loadCardsFromEEPROM leaves
loadCardsFromEEPROM(e, cards) ==
    IF e.numCards > MAX_REGISTERED_CARDS \/ e.numCards < 0
    THEN [numLoadedCards |-> 0, registeredCards |-> cards]
    ELSE [numLoadedCards |-> e.numCards,
          registeredCards |-> [i \in 1..MAX_REGISTERED_CARDS |->
              IF i <= e.numCards
              THEN [uid |-> e.cards[i].uid, uidSize |-> e.cards[i].uidSize,
                    name |-> strcpy(e.cards[i].name), scanCount |-> 0]
              ELSE cards[i]]]

\* a lookup that compares the bytes the two identifiers have in common
findCardIndex_Prefix(cards, n, uid, uidSize) ==
    LET match(i) ==
            \A j \in 1..Min(uidSize, cards[i + 1].uidSize) : cards[i + 1].uid[j] = uid[j]
        hits == {i \in 0..(n - 1) : match(i)}
    IN  IF hits = {} THEN -1 ELSE CHOOSE i \in hits : \A k \in hits : i <= k

\* index of the card in registeredCards (0-based), or -1
findCardIndex(cards, n, uid, uidSize) ==
    LET match(i) ==
            /\ cards[i + 1].uidSize = uidSize
            /\ \A j \in 1..uidSize : cards[i + 1].uid[j] = uid[j]
        hits == {i \in 0..(n - 1) : match(i)}
    IN  IF hits = {} THEN -1 ELSE CHOOSE i \in hits : \A k \in hits : i <= k

\* ------------------------------------------------------------ state
\* ------------------------------------------------------------ the station
\* Bus Station (Master).ino: the snapshot the station holds
MAX_USERS == 5

\* the station's globals after its setup() on an EEPROM without its marker
StationBoot ==
    [passengerCount |-> 0, emergencyCount |-> 0, overloadCount |-> 0, numUsers |-> 0,
     users |-> [i \in 1..MAX_USERS |-> [name |-> <<>>, scanCount |-> 0]],
     dataReceived |-> FALSE,
     saved |-> <<>>]

\* a 16-bit int holding n
Int16(n) == ((n + INT_MAX + 1) % UINT_MOD) - INT_MAX - 1

\* String::trim(): the string without the whitespace at its ends
Trim(str) ==
    LET Whitespace == {" ", "\t", "\r", "\n"}
        inner == {i \in DOMAIN str : str[i] \notin Whitespace}
    IN  IF inner = {} THEN <<>>
        ELSE SubSeq(str, CHOOSE i \in inner : \A k \in inner : i <= k,
                         CHOOSE i \in inner : \A k \in inner : i >= k)

\* what the EEPROM writes at the end of parseData store: the counters and the
\* first numUsers users
Saved(st) ==
    [numUsers |-> st.numUsers, passengerCount |-> st.passengerCount,
     emergencyCount |-> st.emergencyCount, overloadCount |-> st.overloadCount,
     users |-> SubSeq(st.users, 1, st.numUsers)]

RECURSIVE parseTokens(_, _, _)
\* the while loop of parseData over the tokens strtok returns
parseTokens(st, tokens, tokenIndex) ==
    IF tokens = <<>> THEN st
    ELSE LET token == Head(tokens)
             st1 == IF tokenIndex = 0
                    THEN [st EXCEPT !.passengerCount = Int16(atoi(token))]
                    ELSE IF tokenIndex = 1
                    THEN [st EXCEPT !.emergencyCount = Int16(atoi(token))]
                    ELSE IF tokenIndex = 2
                    THEN [st EXCEPT !.overloadCount = Int16(atoi(token))]
                    ELSE IF tokenIndex % 2 = 1 /\ st.numUsers < MAX_USERS
                    THEN \* strncpy(name, token, 16); name[16] = 0
                         [st EXCEPT !.users[st.numUsers + 1].name =
                                        SubSeq(token, 1, Min(Len(token), 16))]
                    ELSE IF st.numUsers < MAX_USERS
                    THEN [st EXCEPT !.users[st.numUsers + 1].scanCount =
                                        Int16(atoi(token)),
                                    !.numUsers = @ + 1]
                    ELSE st
         IN  parseTokens(st1, Tail(tokens), tokenIndex + 1)

\* a parseData that keeps the users it has and appends
parseData_KeepsUsers(st, data) ==
    LET st1 == parseTokens(st, strtok(SubSeq(data, 3, Len(data)), ","), 0)
    IN  [st1 EXCEPT !.saved = Saved(st1)]

parseData(st, data) ==
    LET st1 == parseTokens([st EXCEPT !.numUsers = 0],
                           strtok(SubSeq(data, 3, Len(data)), ","), 0)
    IN  [st1 EXCEPT !.saved = Saved(st1)]

\* step 2 of the station's loop() on the line readStringUntil returns
stationReceive(st, line) ==
    LET dataPacket == Trim(line)
    IN  IF StartsWith(dataPacket, SnapshotPrefix)
        THEN [parseData(st, dataPacket) EXCEPT !.dataReceived = TRUE]
        ELSE st

RECURSIVE stationReceiveAll(_, _)
\* the station's loop() reads the lines println sent, each ended "\r\n"
stationReceiveAll(st, lines) ==
    IF lines = <<>> THEN st
    ELSE stationReceiveAll(stationReceive(st, Head(lines) \o <<"\r">>), Tail(lines))

VARIABLES
    hasRotated,            \* the link-opened gate is open
    servoOpen,             \* the scan-opened gate is open
    servoPos,              \* last position written to myServo
    sinceLastMessage,      \* millis() - lastMessageTime
    passengerCount,
    ir1Triggered,
    ir2Triggered,
    sinceLastTrigger,      \* millis() - lastTriggerTime
    emergencyPressCount,
    lastScannedName,
    lastScannedCount,
    overloadCount,
    numLoadedCards,
    registeredCards,
    sinceBuzzerOn,         \* millis() - buzzerOnTime
    lastButtonState,
    sinceLastEmergency,    \* millis() - lastEmergencyTime
    emergencyMode,
    isOverloaded,
    buzzerPin,             \* level of BUZZER_PIN
    toneLeft,              \* ms the tone() on BUZZER_PIN still runs, 0 when none
    eeprom,                \* the persisted registry store
    \* what the last pass of loop() read and did (empty once time has passed)
    trace,                 \* the steps the pass took, in program order
    tx,                    \* the lines the pass printed in sendAdminData
    rx,                    \* the line the pass read from Serial, <<>> when none
    card,                  \* the uid the pass read from the reader, <<>> when none
    reading1,              \* IR_SENSOR_1_PIN as the pass sampled it
    reading2,              \* IR_SENSOR_2_PIN as the pass sampled it
    sinceTriggered,        \* time since the press that started the running emergency
                           \* (a press after the window has run out starts a new one)
    beforeEntry,           \* occupancy before the last crossing if that was an entry, else -1
    pairedFrom,            \* occupancy before the entry whose exit the pass counted, else -1
    sinceLine,             \* time since loop() last read a line from Serial
    station,               \* the globals of the station sketch
    step                   \* position in a scripted scenario

vars ==
    <<hasRotated, servoOpen, servoPos, sinceLastMessage, passengerCount, ir1Triggered,
      ir2Triggered, sinceLastTrigger, emergencyPressCount, lastScannedName,
      lastScannedCount, overloadCount, numLoadedCards, registeredCards, sinceBuzzerOn,
      lastButtonState, sinceLastEmergency, emergencyMode, isOverloaded, buzzerPin,
      toneLeft, eeprom, trace, tx, rx, card, reading1, reading2, sinceTriggered,
      beforeEntry, pairedFrom, sinceLine, station, step>>

\* the controller's state as one record, the form the operations work on
Cur ==
    [hasRotated |-> hasRotated, servoOpen |-> servoOpen, servoPos |-> servoPos,
     sinceLastMessage |-> sinceLastMessage, passengerCount |-> passengerCount,
     ir1Triggered |-> ir1Triggered, ir2Triggered |-> ir2Triggered,
     sinceLastTrigger |-> sinceLastTrigger, emergencyPressCount |-> emergencyPressCount,
     lastScannedName |-> lastScannedName, lastScannedCount |-> lastScannedCount,
     overloadCount |-> overloadCount, numLoadedCards |-> numLoadedCards,
     registeredCards |-> registeredCards, sinceBuzzerOn |-> sinceBuzzerOn,
     lastButtonState |-> lastButtonState, sinceLastEmergency |-> sinceLastEmergency,
     emergencyMode |-> emergencyMode, isOverloaded |-> isOverloaded,
     buzzerPin |-> buzzerPin, toneLeft |-> toneLeft, eeprom |-> eeprom,
     trace |-> trace, tx |-> tx, rx |-> rx, card |-> card,
     reading1 |-> reading1, reading2 |-> reading2, sinceTriggered |-> sinceTriggered,
     beforeEntry |-> beforeEntry, pairedFrom |-> pairedFrom,
     sinceLine |-> sinceLine, station |-> station]

Commit(s) ==
    /\ hasRotated' = s.hasRotated
    /\ servoOpen' = s.servoOpen
    /\ servoPos' = s.servoPos
    /\ sinceLastMessage' = s.sinceLastMessage
    /\ passengerCount' = s.passengerCount
    /\ ir1Triggered' = s.ir1Triggered
    /\ ir2Triggered' = s.ir2Triggered
    /\ sinceLastTrigger' = s.sinceLastTrigger
    /\ emergencyPressCount' = s.emergencyPressCount
    /\ lastScannedName' = s.lastScannedName
    /\ lastScannedCount' = s.lastScannedCount
    /\ overloadCount' = s.overloadCount
    /\ numLoadedCards' = s.numLoadedCards
    /\ registeredCards' = s.registeredCards
    /\ sinceBuzzerOn' = s.sinceBuzzerOn
    /\ lastButtonState' = s.lastButtonState
    /\ sinceLastEmergency' = s.sinceLastEmergency
    /\ emergencyMode' = s.emergencyMode
    /\ isOverloaded' = s.isOverloaded
    /\ buzzerPin' = s.buzzerPin
    /\ toneLeft' = s.toneLeft
    /\ eeprom' = s.eeprom
    /\ trace' = s.trace
    /\ tx' = s.tx
    /\ rx' = s.rx
    /\ card' = s.card
    /\ reading1' = s.reading1
    /\ reading2' = s.reading2
    /\ sinceTriggered' = s.sinceTriggered
    /\ beforeEntry' = s.beforeEntry
    /\ pairedFrom' = s.pairedFrom
    /\ sinceLine' = s.sinceLine
    /\ station' = s.station

\* the controller is in state s
StartsAs(s) ==
    /\ hasRotated = s.hasRotated
    /\ servoOpen = s.servoOpen
    /\ servoPos = s.servoPos
    /\ sinceLastMessage = s.sinceLastMessage
    /\ passengerCount = s.passengerCount
    /\ ir1Triggered = s.ir1Triggered
    /\ ir2Triggered = s.ir2Triggered
    /\ sinceLastTrigger = s.sinceLastTrigger
    /\ emergencyPressCount = s.emergencyPressCount
    /\ lastScannedName = s.lastScannedName
    /\ lastScannedCount = s.lastScannedCount
    /\ overloadCount = s.overloadCount
    /\ numLoadedCards = s.numLoadedCards
    /\ registeredCards = s.registeredCards
    /\ sinceBuzzerOn = s.sinceBuzzerOn
    /\ lastButtonState = s.lastButtonState
    /\ sinceLastEmergency = s.sinceLastEmergency
    /\ emergencyMode = s.emergencyMode
    /\ isOverloaded = s.isOverloaded
    /\ buzzerPin = s.buzzerPin
    /\ toneLeft = s.toneLeft
    /\ eeprom = s.eeprom
    /\ trace = s.trace
    /\ tx = s.tx
    /\ rx = s.rx
    /\ card = s.card
    /\ reading1 = s.reading1
    /\ reading2 = s.reading2
    /\ sinceTriggered = s.sinceTriggered
    /\ beforeEntry = s.beforeEntry
    /\ pairedFrom = s.pairedFrom
    /\ sinceLine = s.sinceLine
    /\ station = s.station

\* ------------------------------------------------------------ clocks
\* one past the largest value each clock is compared with
CapMessage == TIMEOUT_MS + GATE_BLOCK_CHECK_DELAY_MS + 1

CapTrigger == SEQ_TIMEOUT_MS + 1

CapBuzzer == BUZZER_DURATION_MS + 1

CapEmergency == EMERGENCY_TIMEOUT_MS + 1

\* d milliseconds pass: every millis() - X grows by d; a running tone() ends
\* after its duration and leaves its pin LOW
Elapse(s, d) ==
    [s EXCEPT !.sinceLastMessage = Min(@ + d, CapMessage),
              !.sinceLine = Min(@ + d, CapMessage),
              !.sinceLastTrigger = Min(@ + d, CapTrigger),
              !.sinceBuzzerOn = Min(@ + d, CapBuzzer),
              !.sinceLastEmergency = Min(@ + d, CapEmergency),
              !.sinceTriggered = IF s.emergencyMode THEN Min(@ + d, CapEmergency) ELSE @,
              !.toneLeft = Max(@ - d, 0),
              !.buzzerPin = IF s.toneLeft > 0 /\ d >= s.toneLeft THEN LOW ELSE @]

\* Every test of a timestamp is guarded by the flag that is set together with it
\* (hasRotated or servoOpen, ir1Triggered or ir2Triggered, BUZZER_PIN HIGH,
\* emergencyMode), so a timestamp whose flag is off is not read before it is next
\* assigned: between two passes its clock is let run out.
Forget(s) ==
    [s EXCEPT !.sinceLastMessage = IF s.hasRotated \/ s.servoOpen THEN @ ELSE CapMessage,
              !.sinceLastTrigger = IF s.ir1Triggered \/ s.ir2Triggered THEN @ ELSE CapTrigger,
              !.sinceBuzzerOn = IF s.buzzerPin = HIGH THEN @ ELSE CapBuzzer,
              !.sinceLastEmergency = IF s.emergencyMode THEN @ ELSE CapEmergency,
              !.sinceTriggered = IF s.emergencyMode THEN @ ELSE 0,
              !.sinceLine = IF s.hasRotated THEN @ ELSE CapMessage]

Did(s, what) == [s EXCEPT !.trace = Append(@, what)]

delay(s, ms) == Elapse(s, ms)

\* an updateLCD without the isOverloaded latch
updateLCD_NoLatch(s) ==
    IF s.passengerCount > OVERLOAD_THRESHOLD
    THEN Did([s EXCEPT !.isOverloaded = TRUE,
                       !.buzzerPin = HIGH,
                       !.sinceBuzzerOn = 0,
                       !.overloadCount = (@ + 1) % UINT_MOD], "alarm")
    ELSE [s EXCEPT !.isOverloaded = FALSE, !.buzzerPin = LOW]

\* an updateLCD that never resets the isOverloaded latch
updateLCD_KeepsLatch(s) ==
    IF s.passengerCount > OVERLOAD_THRESHOLD
    THEN IF ~s.isOverloaded
         THEN Did([s EXCEPT !.isOverloaded = TRUE,
                            !.buzzerPin = HIGH,
                            !.sinceBuzzerOn = 0,
                            !.overloadCount = (@ + 1) % UINT_MOD], "alarm")
         ELSE s
    ELSE [s EXCEPT !.buzzerPin = LOW]

\* ------------------------------------------------------------ helpers
\* the overload latch, the buzzer and overloadCount, as updateLCD sets them
updateLCD(s) ==
    IF s.passengerCount > OVERLOAD_THRESHOLD
    THEN IF ~s.isOverloaded
         THEN Did([s EXCEPT !.isOverloaded = TRUE,
                            !.buzzerPin = HIGH,
                            !.sinceBuzzerOn = 0,
                            !.overloadCount = (@ + 1) % UINT_MOD], "alarm")
         ELSE s
    ELSE [s EXCEPT !.isOverloaded = FALSE, !.buzzerPin = LOW]

resetIRStates(s) == [s EXCEPT !.ir1Triggered = FALSE, !.ir2Triggered = FALSE]

\* a snapshot that leaves out the cards not scanned yet
AdminLine_UsedOnly(s) ==
    LET RECURSIVE users(_)
        users(i) ==
            IF i > s.numLoadedCards THEN <<>>
            ELSE (IF s.registeredCards[i].scanCount > 0
                  THEN <<",">> \o s.registeredCards[i].name \o <<",">>
                       \o FormatUnsigned(s.registeredCards[i].scanCount)
                  ELSE <<>>) \o users(i + 1)
    IN  SnapshotPrefix \o FormatInt(s.passengerCount) \o <<",">>
        \o FormatUnsigned(s.emergencyPressCount) \o <<",">>
        \o FormatUnsigned(s.overloadCount) \o users(1)

\* the text sendAdminData builds in buffer
AdminLine(s) ==
    LET RECURSIVE users(_)
        users(i) ==
            IF i > s.numLoadedCards THEN <<>>
            ELSE <<",">> \o s.registeredCards[i].name \o <<",">>
                 \o FormatUnsigned(s.registeredCards[i].scanCount) \o users(i + 1)
    IN  SnapshotPrefix \o FormatInt(s.passengerCount) \o <<",">>
        \o FormatUnsigned(s.emergencyPressCount) \o <<",">>
        \o FormatUnsigned(s.overloadCount) \o users(1)

\* a sendAdminData that transmits its line twice
sendAdminData_Twice(s) ==
    Did([s EXCEPT !.tx = @ \o <<AdminLine(s), SentToAdmin \o AdminLine(s),
                                AdminLine(s), SentToAdmin \o AdminLine(s)>>], "snapshot")

sendAdminData(s) ==
    Did([s EXCEPT !.tx = @ \o <<AdminLine(s), SentToAdmin \o AdminLine(s)>>], "snapshot")

\* a scan that opens the gate and leaves the close timer as it was
activateServo_NoRearm(s) ==
    Did([s EXCEPT !.servoPos = SERVO_OPEN, !.servoOpen = TRUE], "scanOpen")

activateServo(s) ==
    Did([s EXCEPT !.servoPos = SERVO_OPEN, !.servoOpen = TRUE, !.sinceLastMessage = 0],
        "scanOpen")

\* a test of sensor A alone
SensorsClear_OnlyA(s) == s.reading1 = HIGH

SensorsClear(s) == s.reading1 = HIGH /\ s.reading2 = HIGH

checkAndCloseServo(s) ==
    IF s.servoOpen /\ s.sinceLastMessage > TIMEOUT_MS + GATE_BLOCK_CHECK_DELAY_MS
    THEN IF SensorsClear(s)
         THEN updateLCD(Did([s EXCEPT !.servoPos = SERVO_CLOSED, !.servoOpen = FALSE],
                            "servoClose"))
         ELSE Did([s EXCEPT !.sinceLastMessage = 0], "servoBlocked")
    ELSE s

\* a window that ends one millisecond early
EmergencyTimedOut_AtWindow(s) == s.sinceLastEmergency >= EMERGENCY_TIMEOUT_MS

\* millis() - lastEmergencyTime > EMERGENCY_TIMEOUT_MS
EmergencyTimedOut(s) == s.sinceLastEmergency > EMERGENCY_TIMEOUT_MS

handleEmergencyButton(s, buttonState) ==
    LET s1 == IF buttonState = LOW /\ s.lastButtonState = HIGH
              THEN Did([s EXCEPT !.emergencyMode = TRUE,
                                 !.sinceLastEmergency = 0,
                                 !.sinceTriggered =
                                     IF s.emergencyMode /\ ~EmergencyTimedOut(s) THEN @ ELSE 0,
                                 !.emergencyPressCount = (@ + 1) % UINT_MOD,
                                 !.toneLeft = TONE_DURATION_MS], "press")
              ELSE s
        s2 == IF s1.emergencyMode /\ EmergencyTimedOut(s1)
              THEN updateLCD(Did([s1 EXCEPT !.emergencyMode = FALSE,
                                            !.toneLeft = 0,
                                            !.buzzerPin = LOW], "emergencyEnd"))
              ELSE s1
    IN  [s2 EXCEPT !.lastButtonState = buttonState]

\* ------------------------------------------------------------ loop()
\* a heartbeat that starts the arrival sequence whatever hasRotated is
handleBluetooth_EveryHeartbeat(s, msg) ==
    IF msg = <<>> THEN s
    ELSE LET s1 == Did([s EXCEPT !.rx = msg, !.sinceLastMessage = 0, !.sinceLine = 0], "rx")
         IN  IF Contains(msg, HelloFromMaster)
             THEN LET s2 == Did(delay(s1, SETTLE_DELAY_MS), "settle")
                      s3 == Did([s2 EXCEPT !.servoPos = SERVO_OPEN], "linkOpen")
                  IN  sendAdminData([s3 EXCEPT !.hasRotated = TRUE])
             ELSE s1

\* a link on which only the heartbeat re-arms the close timer
handleBluetooth_HeartbeatOnly(s, msg) ==
    IF msg = <<>> THEN s
    ELSE LET s1 == Did([s EXCEPT !.rx = msg, !.sinceLine = 0,
                                 !.sinceLastMessage =
                                     IF Contains(msg, HelloFromMaster) THEN 0 ELSE @], "rx")
         IN  IF Contains(msg, HelloFromMaster) /\ ~s1.hasRotated
             THEN LET s2 == Did(delay(s1, SETTLE_DELAY_MS), "settle")
                      s3 == Did([s2 EXCEPT !.servoPos = SERVO_OPEN], "linkOpen")
                  IN  sendAdminData([s3 EXCEPT !.hasRotated = TRUE])
             ELSE s1

\* "Handle Bluetooth commands": msg is the line read, <<>> when none is available
handleBluetooth(s, msg) ==
    IF msg = <<>> THEN s
    ELSE LET s1 == Did([s EXCEPT !.rx = msg, !.sinceLastMessage = 0, !.sinceLine = 0], "rx")
         IN  IF Contains(msg, HelloFromMaster) /\ ~s1.hasRotated
             THEN LET s2 == Did(delay(s1, SETTLE_DELAY_MS), "settle")
                      s3 == Did([s2 EXCEPT !.servoPos = SERVO_OPEN], "linkOpen")
                  IN  sendAdminData([s3 EXCEPT !.hasRotated = TRUE])
             ELSE s1

\* a link timeout that moves the servo and leaves hasRotated set
bluetoothTimeout_KeepsFlag(s) ==
    IF /\ s.hasRotated
       /\ s.sinceLastMessage > TIMEOUT_MS + GATE_BLOCK_CHECK_DELAY_MS
       /\ s.reading1 = HIGH /\ s.reading2 = HIGH
    THEN Did([s EXCEPT !.servoPos = SERVO_CLOSED], "linkClose")
    ELSE s

\* "Timeout for Bluetooth control"
bluetoothTimeout(s) ==
    IF /\ s.hasRotated
       /\ s.sinceLastMessage > TIMEOUT_MS
       /\ s.sinceLastMessage > TIMEOUT_MS + GATE_BLOCK_CHECK_DELAY_MS
    THEN IF SensorsClear(s)
         THEN updateLCD(Did([s EXCEPT !.servoPos = SERVO_CLOSED, !.hasRotated = FALSE],
                            "linkClose"))
         ELSE Did(s, "linkBlocked")
    ELSE s

\* "Handle RFID card scanning when gate is closed": uid is the card in the
\* reader's field, <<>> when none
handleRFID(s, uid) ==
    IF s.hasRotated \/ uid = <<>> THEN s
    ELSE LET s1 == [s EXCEPT !.card = uid]
             cardIndex == findCardIndex(s.registeredCards, s.numLoadedCards, uid, Len(uid))
         IN  IF cardIndex # -1
             THEN LET n == (s.registeredCards[cardIndex + 1].scanCount + 1) % UINT_MOD
                  IN  activateServo(Did(
                          [s1 EXCEPT !.registeredCards[cardIndex + 1].scanCount = n,
                                     !.lastScannedName = s.registeredCards[cardIndex + 1].name,
                                     !.lastScannedCount = n], "granted"))
             ELSE Did(s1, "denied")

\* an entry that counts two
Increment_Twice(n) == n + 2

\* an exit without the floor at 0
Decrement_NoFloor(n) == n - 1

\* passengerCount++ on a 16-bit int
Increment(n) == IF n = INT_MAX THEN -INT_MAX - 1 ELSE n + 1

\* if (passengerCount > 0) passengerCount--
Decrement(n) == IF n > 0 THEN n - 1 ELSE n

\* the entry and the exit as the pass counts them
CountEntry(s) ==
    Did([s EXCEPT !.passengerCount = Increment(@), !.beforeEntry = s.passengerCount], "entry")

CountExit(s) ==
    Did([s EXCEPT !.passengerCount = Decrement(@), !.beforeEntry = -1,
                  !.pairedFrom = s.beforeEntry], "exit")

\* a window that still admits a completion 1000 ms after the arming
SequenceInTime_Inclusive(s) == s.sinceLastTrigger <= SEQ_TIMEOUT_MS

\* millis() - lastTriggerTime < SEQ_TIMEOUT_MS
SequenceInTime(s) == s.sinceLastTrigger < SEQ_TIMEOUT_MS

\* "IR Sensor Logic for Passenger Counting"
countPassengers(s) ==
    LET s1 == IF s.reading1 = LOW /\ ~s.ir1Triggered /\ ~s.ir2Triggered
              THEN Did([s EXCEPT !.ir1Triggered = TRUE, !.sinceLastTrigger = 0], "arm1")
              ELSE s
        s2 == IF s1.ir1Triggered /\ s1.reading2 = LOW /\ SequenceInTime(s1)
              THEN delay(resetIRStates(updateLCD(CountEntry(s1))), IR_DEBOUNCE_MS)
              ELSE s1
        s3 == IF s2.reading2 = LOW /\ ~s2.ir2Triggered /\ ~s2.ir1Triggered
              THEN Did([s2 EXCEPT !.ir2Triggered = TRUE, !.sinceLastTrigger = 0], "arm2")
              ELSE s2
        s4 == IF s3.ir2Triggered /\ s3.reading1 = LOW /\ SequenceInTime(s3)
              THEN delay(resetIRStates(updateLCD(CountExit(s3))), IR_DEBOUNCE_MS)
              ELSE s3
    IN  IF (s4.ir1Triggered \/ s4.ir2Triggered) /\ s4.sinceLastTrigger > SEQ_TIMEOUT_MS
        THEN Did(resetIRStates(s4), "seqTimeout")
        ELSE s4

\* a pass that never evaluates the buzzer timeout
buzzerTimeout_Skipped(s) == s

\* "Turn off overload buzzer after duration"
buzzerTimeout(s) ==
    IF s.buzzerPin = HIGH /\ s.sinceBuzzerOn > BUZZER_DURATION_MS
    THEN Did([s EXCEPT !.buzzerPin = LOW], "buzzerOff")
    ELSE s

\* a pass that runs the body whether or not the emergency is active
loop_NoFreeze(s, buttonState, msg, uid, pin1, pin2) ==
    LET s0 == [s EXCEPT !.trace = <<"loop">>, !.tx = <<>>, !.rx = <<>>, !.card = <<>>,
                        !.reading1 = HIGH, !.reading2 = HIGH, !.pairedFrom = -1]
        s1 == handleEmergencyButton(s0, buttonState)
        s2 == Did([s1 EXCEPT !.reading1 = pin1, !.reading2 = pin2], "body")
    IN  checkAndCloseServo(buzzerTimeout(countPassengers(
            handleRFID(bluetoothTimeout(handleBluetooth(s2, msg)), uid))))

\* one pass of loop() from state s, with what the pass reads
loop(s, buttonState, msg, uid, pin1, pin2) ==
    LET s0 == [s EXCEPT !.trace = <<"loop">>, !.tx = <<>>, !.rx = <<>>, !.card = <<>>,
                        !.reading1 = HIGH, !.reading2 = HIGH, !.pairedFrom = -1]
        s1 == handleEmergencyButton(s0, buttonState)
        s2 == Did([s1 EXCEPT !.reading1 = pin1, !.reading2 = pin2], "body")
    IN  IF ~s1.emergencyMode
        THEN checkAndCloseServo(buzzerTimeout(countPassengers(
                 handleRFID(bluetoothTimeout(handleBluetooth(s2, msg)), uid))))
        ELSE s1

\* ------------------------------------------------------------ environment
\* the heartbeat as the station's println sends it and readStringUntil('\n') returns it
HeartbeatLine == HelloFromMaster \o <<"\r">>

OtherLine ==
    <<"h", "e", "l", "l", "o", " ", "f", "r", "o", "m", " ", "m", "a", "s", "t", "e", "r", "\r">>

Messages == {<<>>, HeartbeatLine, OtherLine}

RegisteredUid(i) == SubSeq(predefinedUsers[i].uid, 1, predefinedUsers[i].uidSize)

UnknownUid == <<222, 173, 190, 239>>

\* a registered identifier cut short, and one with a byte more
PrefixUid == SubSeq(RegisteredUid(1), 1, 3)

LongerUid == RegisteredUid(1) \o <<0>>

PresentedUids ==
    {<<>>, UnknownUid, PrefixUid, LongerUid} \cup {RegisteredUid(i) : i \in 1..NUM_PREDEFINED_USERS}

Levels == {LOW, HIGH}

\* the counters stay within the model's bounds
WithinBounds(s) ==
    /\ s.passengerCount <= MaxCount
    /\ s.emergencyPressCount <= MaxPress
    /\ s.overloadCount <= MaxOverload
    /\ \A i \in 1..MAX_REGISTERED_CARDS : s.registeredCards[i].scanCount <= MaxScan

\* ------------------------------------------------------------ behaviour
\* the state setup() leaves, booting on the store e
setup(e) ==
    LET e1 == IF ~Initialized(e)
              THEN [writePredefinedCardsToEEPROM(e) EXCEPT !.magic = MAGIC_VALUE]
              ELSE e
        loaded == loadCardsFromEEPROM(e1, [i \in 1..MAX_REGISTERED_CARDS |-> EmptyCard])
    IN  [hasRotated |-> FALSE, servoOpen |-> FALSE, servoPos |-> SERVO_CLOSED,
         sinceLastMessage |-> 0, passengerCount |-> 0,
         ir1Triggered |-> FALSE, ir2Triggered |-> FALSE,
         sinceLastTrigger |-> 0, emergencyPressCount |-> 0,
         lastScannedName |-> <<"N", "o", "n", "e">>, lastScannedCount |-> 0,
         overloadCount |-> 0, numLoadedCards |-> loaded.numLoadedCards,
         registeredCards |-> loaded.registeredCards, sinceBuzzerOn |-> 0,
         lastButtonState |-> HIGH, sinceLastEmergency |-> 0,
         emergencyMode |-> FALSE, isOverloaded |-> FALSE,
         buzzerPin |-> LOW, toneLeft |-> 0, eeprom |-> e1,
         trace |-> <<>>, tx |-> <<>>, rx |-> <<>>, card |-> <<>>,
         reading1 |-> HIGH, reading2 |-> HIGH, sinceTriggered |-> 0,
         beforeEntry |-> -1, pairedFrom |-> -1,
         sinceLine |-> 0, station |-> StationBoot]

Init == step = 0 /\ StartsAs(setup(BlankEEPROM))

\* one pass of loop() that reads a button level of buttons, a line of messages,
\* a card of uids and sensor levels of pins
Pass(buttons, messages, uids, pins) ==
    \E buttonState \in buttons, msg \in messages, uid \in uids, pin \in pins :
        \E s \in {loop(Cur, buttonState, msg, uid, pin[1], pin[2])} :
            WithinBounds(s) /\ Commit(s)

\* d milliseconds of deltas pass between two passes of loop(); what the last
\* pass read and did is forgotten
Wait(deltas) ==
    \E d \in deltas :
        \E s \in {[Forget(Elapse(Cur, d)) EXCEPT !.trace = <<>>, !.tx = <<>>, !.rx = <<>>,
                                               !.card = <<>>, !.reading1 = HIGH,
                                               !.reading2 = HIGH, !.pairedFrom = -1]} :
            Commit(s)

\* the controller in any environment
Loop == Pass(Levels, Messages, PresentedUids, Levels \X Levels) /\ UNCHANGED step

Tick == Wait(Deltas) /\ UNCHANGED step

Next == Loop \/ Tick

Spec == Init /\ [][Next]_vars

\* ------------------------------------------------------------ the counter
\* the passenger counter alone: only the two sensors change
LoopCount == Pass({HIGH}, {<<>>}, {<<>>}, Levels \X Levels) /\ UNCHANGED step

TickCount == Wait(Deltas) /\ UNCHANGED step

NextCount == LoopCount \/ TickCount

SpecCount == Init /\ [][NextCount]_vars

\* ------------------------------------------------------------ the gate
\* The controller in service: c passengers aboard, p presses and o overloads
\* counted, and nothing else going on for a long time.
InService(c, p, o) ==
    Forget([setup(BlankEEPROM) EXCEPT !.passengerCount = c,
                                      !.emergencyPressCount = p,
                                      !.overloadCount = o,
                                      !.isOverloaded = c > OVERLOAD_THRESHOLD])

ServiceStates == {<<3, 1, 0>>, <<6, 2, 1>>}

InitGate ==
    /\ step = 0
    /\ \/ StartsAs(setup(BlankEEPROM))
       \/ \E k \in ServiceStates : StartsAs(InService(k[1], k[2], k[3]))

Clear == <<HIGH, HIGH>>

\* sensor B blocked: the gate is obstructed and no crossing completes
BlockedB == <<HIGH, LOW>>

GateUids == {<<>>, UnknownUid, PrefixUid, LongerUid, RegisteredUid(1)}

\* the gate: lines arrive, cards are presented, the sensors are clear or blocked
LoopGate == Pass({HIGH}, Messages, GateUids, {Clear, BlockedB}) /\ UNCHANGED step

TickGate == Wait(Deltas) /\ UNCHANGED step

NextGate == LoopGate \/ TickGate

SpecGate == InitGate /\ [][NextGate]_vars

\* ------------------------------------------------------------ the emergency
\* the panic button: it is pressed and released, heartbeats arrive
LoopEmergency == Pass(Levels, {<<>>, HeartbeatLine}, {<<>>}, {Clear}) /\ UNCHANGED step

TickEmergency == Wait(Deltas) /\ UNCHANGED step

NextEmergency == LoopEmergency \/ TickEmergency

SpecEmergency == Init /\ [][NextEmergency]_vars

\* ------------------------------------------------------------ six entries
\* Six passengers board one after the other.  Each is seen by two passes at
\* sensor A alone and then, within the window, by two passes at sensor B alone;
\* any time may pass between two passengers.  The bus may stand at a station.
OnlyA == <<LOW, HIGH>>

EntryScript == <<OnlyA, OnlyA, BlockedB, BlockedB>>

PassesPerEntry == Len(EntryScript)

SixEntries == (OVERLOAD_THRESHOLD + 1) * PassesPerEntry

Arrive ==
    /\ step = 0
    /\ ~hasRotated
    /\ Pass({HIGH}, {HeartbeatLine}, {<<>>}, {Clear})
    /\ UNCHANGED step

Board ==
    /\ step < SixEntries
    /\ Pass({HIGH}, {<<>>}, {<<>>}, {EntryScript[(step % PassesPerEntry) + 1]})
    /\ step' = step + 1

Between ==
    /\ step % PassesPerEntry = 0
    /\ step < SixEntries
    /\ Wait(Deltas)
    /\ UNCHANGED step

NextSix == Arrive \/ Board \/ Between

SpecSix == Init /\ [][NextSix]_vars

\* ------------------------------------------------------------ reading a pass
\* the last step was a pass of loop()
IsPass == trace # <<>>

Has(what) == what \in Range(trace)

HasIn(tr, what) == what \in Range(tr)

RECURSIVE InOrder(_, _)
\* the tags occur in tr in this order
InOrder(tr, tags) ==
    IF tags = <<>> THEN TRUE
    ELSE IF tr = <<>> THEN FALSE
    ELSE IF Head(tr) = Head(tags) THEN InOrder(Tail(tr), Tail(tags))
    ELSE InOrder(Tail(tr), tags)

Times(tr, what) == Cardinality({i \in DOMAIN tr : tr[i] = what})

\* the lines of out the station takes for snapshots (startsWith("D:"))
SnapshotLines(out) == SelectSeq(out, LAMBDA line : StartsWith(line, SnapshotPrefix))

\* the comma-separated fields of a snapshot line, as the station's parseData cuts them
Fields(line) == strtok(SubSeq(line, Len(SnapshotPrefix) + 1, Len(line)), ",")

\* the name/scanCount pairs that follow the three counters
Pairs(f) == [k \in 1..((Len(f) - 3) \div 2) |-> <<f[2 * k + 2], atoi(f[2 * k + 3])>>]

PairOf(c) == <<c.name, c.scanCount>>

PairsOf(cards) == [k \in 1..Len(cards) |-> PairOf(cards[k])]

\* an exact match of length and bytes with a loaded card
Registered(cards, n, uid) ==
    \E i \in 1..n :
        /\ cards[i].uidSize = Len(uid)
        /\ SubSeq(cards[i].uid, 1, cards[i].uidSize) = uid

GateClosed == ~hasRotated /\ ~servoOpen /\ servoPos = SERVO_CLOSED

C2_OccupancyNeverNegative ==
    /\ [](passengerCount >= 0)
    /\ [][IF HasIn(trace', "exit")
          THEN LET o == IF HasIn(trace', "entry")
                        THEN passengerCount + 1 ELSE passengerCount
               IN  passengerCount' = Max(o - 1, 0)
          ELSE passengerCount' >= passengerCount]_vars

\* a pass counted an exit that was not paired with an entry and the bus is empty
C2_Witness ==
    /\ Has("exit") /\ ~Has("entry")
    /\ passengerCount = 0
    /\ overloadCount = 0
    /\ beforeEntry = -1 /\ pairedFrom = -1

\* C3: the alarm fires once and overloadCount grows by 1 in a pass whose entry
\* takes passengerCount from <= 5 to > 5, and in no other step: not while
\* passengerCount stays above 5, and again only after it fell to <= 5.
C3_AlarmOncePerCrossing ==
    [][IF /\ HasIn(trace', "entry")
          /\ passengerCount <= OVERLOAD_THRESHOLD
          /\ passengerCount + 1 > OVERLOAD_THRESHOLD
       THEN /\ overloadCount' = overloadCount + 1
            /\ Times(trace', "alarm") = 1
       ELSE /\ overloadCount' = overloadCount
            /\ ~HasIn(trace', "alarm")]_vars

\* the second alarm, after occupancy fell to the threshold and rose again
C3_Witness ==
    /\ Has("alarm")
    /\ overloadCount = 2
    /\ passengerCount = OVERLOAD_THRESHOLD + 1

\* C8: a counted entry followed by a counted exit leaves passengerCount at the
\* value it had before the entry (pairedFrom).
C8_EntryThenExitRestores ==
    pairedFrom # -1 => passengerCount = pairedFrom

\* an exit in a later pass than its entry, from an occupancy above 0
C8_Witness ==
    /\ Has("exit") /\ ~Has("entry")
    /\ pairedFrom = 3
    /\ passengerCount = 3

\* C5 as stated: the emergency lasts 5000 ms from the press that triggered it,
\* whatever the button does in between: after a pass it is active only within
\* 5000 ms of that press, a pass within the window leaves it active, and the
\* gate, access and counting part of the pass runs exactly when it is inactive.
C5_WindowFromTriggeringPress ==
    [][IsPass' =>
          /\ emergencyMode' => sinceTriggered' <= EMERGENCY_TIMEOUT_MS
          /\ emergencyMode /\ sinceTriggered <= EMERGENCY_TIMEOUT_MS => emergencyMode'
          /\ HasIn(trace', "body") <=> ~emergencyMode']_vars

\* C5: the emergency lasts 5000 ms from the most recent press: a press starts
\* or restarts the window, after a pass the emergency is active only within
\* 5000 ms of the last press, a pass within the window leaves it active, and
\* the gate, access and counting part of the pass runs exactly when it is
\* inactive.
C5_WindowFromLastPress ==
    [][IsPass' =>
          /\ HasIn(trace', "press") => emergencyMode' /\ sinceLastEmergency' = 0
          /\ emergencyMode' => sinceLastEmergency' <= EMERGENCY_TIMEOUT_MS
          /\ emergencyMode /\ sinceLastEmergency <= EMERGENCY_TIMEOUT_MS => emergencyMode'
          /\ emergencyMode /\ sinceLastEmergency > EMERGENCY_TIMEOUT_MS
                 /\ ~HasIn(trace', "press") => ~emergencyMode' /\ HasIn(trace', "emergencyEnd")
          /\ HasIn(trace', "body") <=> ~emergencyMode']_vars

\* an emergency still active more than 5000 ms after the press that triggered
\* it, a later press having restarted the window
C5_Witness ==
    /\ IsPass
    /\ emergencyMode
    /\ sinceTriggered > EMERGENCY_TIMEOUT_MS
    /\ sinceLastEmergency <= EMERGENCY_TIMEOUT_MS
    /\ emergencyPressCount = 2

\* C6: a pass that receives a heartbeat while the gate is closed and no
\* emergency is active waits the settle delay, then opens the gate, then
\* transmits exactly one snapshot line, whose three counters are the values of
\* passengerCount, emergencyPressCount and overloadCount at that moment.
C6_HeartbeatOpensThenReports ==
    [][(/\ IsPass'
        /\ Contains(rx', HelloFromMaster)
        /\ ~hasRotated /\ ~servoOpen
        /\ ~emergencyMode')
       => /\ InOrder(trace', <<"rx", "settle", "linkOpen", "snapshot">>)
          /\ Times(trace', "linkOpen") = 1
          /\ sinceLastMessage' >= SETTLE_DELAY_MS
          /\ servoPos' = SERVO_OPEN /\ hasRotated'
          /\ Len(SnapshotLines(tx')) = 1
          /\ LET f == Fields(SnapshotLines(tx')[1])
             IN  /\ Len(f) >= 3
                 /\ atoi(f[1]) = passengerCount
                 /\ atoi(f[2]) = emergencyPressCount
                 /\ atoi(f[3]) = overloadCount]_vars

\* a heartbeat opened the closed gate of a bus with 6 aboard, 2 presses and 1 overload
C6_Witness ==
    /\ Has("linkOpen") /\ Has("snapshot")
    /\ Contains(rx, HelloFromMaster)
    /\ servoPos = SERVO_OPEN
    /\ passengerCount = 6 /\ emergencyPressCount = 2 /\ overloadCount = 1

\* C7: a card presented while the gate is closed is granted exactly when its
\* length and all its bytes equal those of a loaded card; otherwise it is
\* denied and the pass changes nothing: the gate stays closed, the close timer
\* is not re-armed, no scanCount changes, registry and store are unchanged.
C7_UnknownCardChangesNothing ==
    [][(IsPass' /\ card' # <<>> /\ GateClosed)
       => IF Registered(registeredCards, numLoadedCards, card')
          THEN HasIn(trace', "granted") /\ ~HasIn(trace', "denied")
          ELSE /\ HasIn(trace', "denied") /\ ~HasIn(trace', "granted")
               /\ ~HasIn(trace', "scanOpen")
               /\ servoPos' = SERVO_CLOSED /\ ~servoOpen' /\ ~hasRotated'
               /\ rx' = <<>> => sinceLastMessage' = sinceLastMessage
               /\ registeredCards' = registeredCards
               /\ numLoadedCards' = numLoadedCards
               /\ eeprom' = eeprom
               /\ lastScannedName' = lastScannedName
               /\ lastScannedCount' = lastScannedCount]_vars

\* the first bytes of a registered card were presented at the closed gate and denied
C7_Witness ==
    /\ Has("denied")
    /\ card = PrefixUid
    /\ servoPos = SERVO_CLOSED /\ ~servoOpen /\ ~hasRotated

\* C9 as stated: after the three counters a snapshot line carries one
\* name/scanCount pair for each loaded card with scanCount > 0, in registry
\* order, and no pair for a card with scanCount 0.
C9_PairsForUsedCardsOnly ==
    \A i \in DOMAIN SnapshotLines(tx) :
        LET f == Fields(SnapshotLines(tx)[i])
            used == SelectSeq(SubSeq(registeredCards, 1, numLoadedCards),
                              LAMBDA c : c.scanCount > 0)
        IN  Len(f) = 3 + 2 * Len(used) /\ Pairs(f) = PairsOf(used)

\* C9: after the three counters a snapshot line carries one name/scanCount pair
\* for every loaded card, scanned or not, in registry order.
C9_PairsForAllCards ==
    \A i \in DOMAIN SnapshotLines(tx) :
        LET f == Fields(SnapshotLines(tx)[i])
            loaded == SubSeq(registeredCards, 1, numLoadedCards)
        IN  Len(f) = 3 + 2 * Len(loaded) /\ Pairs(f) = PairsOf(loaded)

\* a snapshot sent when one card had been scanned and another had not
C9_Witness ==
    /\ Has("snapshot")
    /\ SnapshotLines(tx) # <<>>
    /\ registeredCards[1].scanCount > 0
    /\ registeredCards[2].scanCount = 0
    /\ numLoadedCards = NUM_PREDEFINED_USERS

\* C4 as stated: six passengers entering one after the other, each past sensor
\* A and then sensor B, leave passengerCount at 6 and overloadCount at 1.
C4_SixEntriesCountSix ==
    step = SixEntries => passengerCount = OVERLOAD_THRESHOLD + 1 /\ overloadCount = 1

\* C10 as stated: a pass in which passengerCount rises above the threshold and
\* the buzzer sounds leaves the gate closed.
C10_OverloadClosesGate ==
    Has("alarm") => servoPos = SERVO_CLOSED /\ ~hasRotated /\ ~servoOpen

\* ------------------------------------------------------------ leaving the station
\* The bus stands at a station (step = 0): heartbeats arrive, a card is scanned,
\* the button is pressed once, sensor B is blocked.  Then it leaves (step = 1): no
\* line arrives, no card is presented, the button is up and both sensors are
\* clear.  loop() runs forever and time passes.
AtStation == 0

Left == 1

LoopStation ==
    /\ step = AtStation
    /\ Pass(IF emergencyPressCount = 0 THEN Levels ELSE {HIGH},
            {<<>>, HeartbeatLine}, {<<>>, RegisteredUid(1)}, {Clear, BlockedB})
    /\ UNCHANGED step

Leave ==
    /\ step = AtStation
    /\ step' = Left
    /\ Commit(Cur)

LoopLeft ==
    /\ step = Left
    /\ Pass({HIGH}, {<<>>}, {<<>>}, {Clear})
    /\ UNCHANGED step

TickLeave == Wait(Deltas) /\ UNCHANGED step

NextLeave == LoopStation \/ Leave \/ LoopLeft \/ TickLeave

\* a pass after leaving would change the state: ENABLED <<LoopLeft>>_vars
LoopLeftEnabled ==
    /\ step = Left
    /\ \E s \in {loop(Cur, HIGH, <<>>, <<>>, HIGH, HIGH)} : WithinBounds(s) /\ s # Cur

\* WF_vars(LoopLeft) with its enabling condition written out: loop() is called
\* again and again, so a pass that would change the state is not put off forever
LoopLeftFair == []<>(~LoopLeftEnabled) \/ []<><<LoopLeft>>_vars

SpecLeave ==
    /\ Init
    /\ [][NextLeave]_vars
    /\ LoopLeftFair
    /\ WF_vars(TickLeave)

\* C11: once the bus has left (no line, no card, no press, both sensors clear)
\* an open gate is eventually closed: hasRotated and servoOpen false and the
\* servo at the closed position.
C11_GateClosesAfterLeaving ==
    (step = Left /\ ~GateClosed) ~> GateClosed

\* after leaving, one pass closed the gate on the link path and on the scan path
C11_Witness ==
    /\ step = Left
    /\ Has("linkClose") /\ Has("servoClose")
    /\ GateClosed

\* C12 as stated: a card presented while the gate is open, by a heartbeat or by
\* an earlier granted scan, or while the emergency is active, is ignored: the
\* pass grants nothing, no scanCount changes and the close timer is not re-armed
\* by a scan.
C12_NoScanWhileOpen ==
    [][(IsPass' /\ (hasRotated \/ servoOpen \/ emergencyMode'))
       => /\ ~HasIn(trace', "granted")
          /\ ~HasIn(trace', "scanOpen")
          /\ \A i \in 1..MAX_REGISTERED_CARDS :
                 registeredCards'[i].scanCount = registeredCards[i].scanCount]_vars

\* C13 as stated: a pass that finds both sensors blocked while no sequence is
\* armed arms nothing and counts nothing: afterwards no sequence is armed,
\* passengerCount, the overload latch, the buzzer and overloadCount are as
\* before, and the pass recorded no entry and no exit.
C13_BothSensorsCountNothing ==
    [][(/\ HasIn(trace', "body")
        /\ reading1' = LOW /\ reading2' = LOW
        /\ ~ir1Triggered /\ ~ir2Triggered)
       => /\ ~ir1Triggered' /\ ~ir2Triggered'
          /\ passengerCount' = passengerCount
          /\ isOverloaded' = isOverloaded
          /\ buzzerPin' = buzzerPin
          /\ overloadCount' = overloadCount
          /\ ~HasIn(trace', "entry") /\ ~HasIn(trace', "exit")]_vars

\* C14 as stated: at the end of a pass that completed a crossing no sequence is
\* armed; the reading that completed an entry does not arm an exit.
C14_IdleAfterCrossing ==
    [][(HasIn(trace', "entry") \/ HasIn(trace', "exit"))
       => /\ ~ir1Triggered' /\ ~ir2Triggered'
          /\ ~InOrder(trace', <<"entry", "arm2">>)]_vars

\* C15: a sequence armed 1000 ms ago or longer is never completed: a pass that
\* finds it counts no entry and no exit and leaves passengerCount unchanged,
\* whatever the sensors read, and once more than 1000 ms have passed the pass
\* abandons it and no sequence is armed afterwards.
C15_WindowAbandonsSequence ==
    [][(/\ HasIn(trace', "body")
        /\ ir1Triggered \/ ir2Triggered
        /\ sinceLastTrigger >= SEQ_TIMEOUT_MS)
       => /\ ~HasIn(trace', "entry") /\ ~HasIn(trace', "exit")
          /\ passengerCount' = passengerCount
          /\ sinceLastTrigger > SEQ_TIMEOUT_MS
                 => /\ HasIn(trace', "seqTimeout")
                    /\ ~ir1Triggered' /\ ~ir2Triggered']_vars

\* sensor B fired alone after the window of an armed sequence had elapsed: the
\* sequence was abandoned, with three passengers aboard as before
C15_Witness ==
    /\ Has("seqTimeout")
    /\ reading1 = HIGH /\ reading2 = LOW
    /\ ~Has("entry") /\ ~Has("exit")
    /\ ~ir1Triggered /\ ~ir2Triggered
    /\ passengerCount = 3

\* C16 as stated: on either close path, a pass that finds the open-hold timeout
\* elapsed and a sensor blocked leaves the gate open, reports the obstruction
\* and re-arms the timeout.
C16_ObstructionRearmsTimeout ==
    [][(HasIn(trace', "linkBlocked") \/ HasIn(trace', "servoBlocked"))
       => /\ servoPos' = SERVO_OPEN
          /\ hasRotated' = hasRotated /\ servoOpen' = servoOpen
          /\ sinceLastMessage' = 0]_vars

\* ------------------------------------------------------------ the alarm
\* A bus with five aboard: passengers enter and leave, the button is pressed,
\* heartbeats arrive.
InitAlarm == step = 0 /\ StartsAs(InService(OVERLOAD_THRESHOLD, 0, 0))

LoopAlarm ==
    /\ Pass(IF emergencyPressCount = 0 THEN Levels ELSE {HIGH},
            IF buzzerPin = HIGH /\ ~hasRotated THEN {<<>>, HeartbeatLine} ELSE {<<>>},
            {<<>>},
            IF hasRotated THEN {Clear} ELSE {Clear, OnlyA, BlockedB})
    /\ UNCHANGED step

TickAlarm == Wait(Deltas) /\ UNCHANGED step

NextAlarm == LoopAlarm \/ TickAlarm

SpecAlarm == InitAlarm /\ [][NextAlarm]_vars

\* C17 as stated: after every pass, a buzzer that is on was switched on at most
\* 3000 ms ago and passengerCount is above 5, also while the emergency is
\* active and in a pass that waited the settle delay.
C17_AlarmSilencedInTime ==
    (IsPass /\ buzzerPin = HIGH)
        => sinceBuzzerOn <= BUZZER_DURATION_MS /\ passengerCount > OVERLOAD_THRESHOLD

\* C17 as the code has it: the buzzer timeout and the occupancy test are
\* evaluated only in a pass that runs the body, so after such a pass a buzzer
\* that is on was switched on at most 3000 ms ago with passengerCount above 5,
\* also when the pass waited the settle delay. While the emergency is active
\* neither is evaluated: after such a pass the buzzer output is on only while
\* the 200 ms confirmation tone of a press still runs.
C17_AlarmSilencedOutsideEmergency ==
    (IsPass /\ buzzerPin = HIGH)
        => IF emergencyMode
           THEN toneLeft > 0
           ELSE /\ sinceBuzzerOn <= BUZZER_DURATION_MS
                /\ passengerCount > OVERLOAD_THRESHOLD

\* the alarm times out in the pass that waited the settle delay
C17_Witness ==
    /\ InOrder(trace, <<"settle", "buzzerOff">>)
    /\ buzzerPin = LOW
    /\ passengerCount > OVERLOAD_THRESHOLD

\* ------------------------------------------------------------ the heartbeat
\* C18 as stated: a pass that receives a heartbeat while the gate is open, by
\* an earlier heartbeat or by a granted scan, waits no settle delay, does not
\* write the actuator for the link and transmits no snapshot.
C18_NoArrivalWhileOpen ==
    [][(IsPass' /\ Contains(rx', HelloFromMaster) /\ ~GateClosed)
       => /\ ~HasIn(trace', "settle")
          /\ ~HasIn(trace', "linkOpen")
          /\ ~HasIn(trace', "snapshot")]_vars

\* C18 as the code has it: the open cycle is hasRotated alone. A pass that
\* receives a heartbeat while hasRotated is set waits no settle delay, leaves
\* the actuator alone and transmits nothing; one that receives it while
\* hasRotated is clear, also at a gate a granted scan holds open, waits the
\* settle delay, writes the actuator open, sets hasRotated and transmits one
\* snapshot.
C18_ArrivalUnlessLinkOpened ==
    [][(IsPass' /\ Contains(rx', HelloFromMaster))
       => IF hasRotated
          THEN /\ ~HasIn(trace', "settle")
               /\ ~HasIn(trace', "linkOpen")
               /\ ~HasIn(trace', "snapshot")
               /\ servoPos' = servoPos
               /\ tx' = <<>>
          ELSE /\ InOrder(trace', <<"rx", "settle", "linkOpen", "snapshot">>)
               /\ servoPos' = SERVO_OPEN
               /\ hasRotated'
               /\ Len(SnapshotLines(tx')) = 1]_vars

\* a heartbeat ran the arrival sequence at a gate a granted scan holds open
C18_Witness ==
    /\ Contains(rx, HelloFromMaster)
    /\ InOrder(trace, <<"settle", "linkOpen", "snapshot">>)
    /\ servoOpen
    /\ hasRotated

\* ------------------------------------------------------------ the freeze
\* The bus of the alarm section, and while the emergency is active everything
\* arrives at once: heartbeats, a registered card, passengers at the sensors.
LoopFrozen ==
    /\ Pass(IF emergencyPressCount = 0 THEN Levels ELSE {HIGH},
            IF emergencyMode \/ (buzzerPin = HIGH /\ ~hasRotated)
            THEN {<<>>, HeartbeatLine} ELSE {<<>>},
            IF emergencyMode THEN {<<>>, RegisteredUid(1)} ELSE {<<>>},
            IF (hasRotated \/ servoOpen) /\ ~emergencyMode
            THEN {Clear} ELSE {Clear, OnlyA, BlockedB})
    /\ UNCHANGED step

TickFrozen == Wait(Deltas) /\ UNCHANGED step

NextFrozen == LoopFrozen \/ TickFrozen

SpecFrozen == InitAlarm /\ [][NextFrozen]_vars

\* C19: a pass that ends with the emergency active leaves the gate state
\* (hasRotated, servoOpen, the actuator position), passengerCount, the crossing
\* sequence state, every card record with its scanCount, the overload latch and
\* overloadCount as they were, re-arms none of the link, crossing and alarm
\* timestamps and transmits nothing; of the counters and timestamps only
\* emergencyPressCount and the emergency timestamp may differ.
C19_EmergencyFreezesController ==
    [][(IsPass' /\ emergencyMode')
       => /\ hasRotated' = hasRotated
          /\ servoOpen' = servoOpen
          /\ servoPos' = servoPos
          /\ passengerCount' = passengerCount
          /\ ir1Triggered' = ir1Triggered
          /\ ir2Triggered' = ir2Triggered
          /\ registeredCards' = registeredCards
          /\ isOverloaded' = isOverloaded
          /\ overloadCount' = overloadCount
          /\ sinceLastMessage' = sinceLastMessage
          /\ sinceLastTrigger' = sinceLastTrigger
          /\ sinceBuzzerOn' = sinceBuzzerOn
          /\ tx' = <<>>
          /\ rx' = <<>>
          /\ card' = <<>>]_vars

\* a pass in the emergency, not the one of the press, at a link-opened gate
\* whose close timeout has run out
C19_Witness ==
    /\ IsPass
    /\ emergencyMode
    /\ ~Has("press")
    /\ hasRotated
    /\ servoPos = SERVO_OPEN
    /\ sinceLastMessage > TIMEOUT_MS + GATE_BLOCK_CHECK_DELAY_MS

\* ------------------------------------------------------------ the order of a pass
\* what a pass records of each part of loop()
LinkEvaluations == {"rx", "settle", "linkOpen", "snapshot"}

LinkCloseEvaluations == {"linkClose", "linkBlocked"}

AccessEvaluations == {"granted", "denied", "scanOpen"}

CrossingEvaluations == {"arm1", "entry", "alarm", "arm2", "exit", "seqTimeout"}

AlarmTimerEvaluations == {"buzzerOff"}

ScanCloseEvaluations == {"servoClose", "servoBlocked"}

Opens == {"linkOpen", "scanOpen"}

Closes == {"linkClose", "servoClose"}

\* in tr everything of first stands before everything of then
Before(tr, first, then) ==
    \A i, j \in DOMAIN tr : (tr[i] \in first /\ tr[j] \in then) => i < j

\* C20 as stated: in every pass each gate-close timeout, of the link and of
\* the scan, acts after what the pass does for the link, the cards, the
\* crossing sensors and the alarm timer; no pass opens the gate and then closes
\* it, and none closes it and then opens it.
C20_CloseEvaluatedLast ==
    /\ Before(trace,
              LinkEvaluations \cup AccessEvaluations \cup CrossingEvaluations
                  \cup AlarmTimerEvaluations,
              LinkCloseEvaluations \cup ScanCloseEvaluations)
    /\ Before(trace, Closes, Opens)
    /\ Before(trace, Opens, Closes)

\* C20 as the code has it: the close timeout of the scan acts after everything
\* else of the pass; the close timeout of the link acts after the link is read
\* and before the cards, the crossing sensors and the alarm timer; no pass
\* opens the gate and then closes it.
C20_ScanCloseLastLinkCloseSecond ==
    /\ Before(trace,
              LinkEvaluations \cup LinkCloseEvaluations \cup AccessEvaluations
                  \cup CrossingEvaluations \cup AlarmTimerEvaluations,
              ScanCloseEvaluations)
    /\ Before(trace, LinkEvaluations, LinkCloseEvaluations)
    /\ Before(trace, LinkCloseEvaluations,
              AccessEvaluations \cup CrossingEvaluations \cup AlarmTimerEvaluations)
    /\ Before(trace, Closes, Opens)

\* the link timeout closes the gate and the same pass grants a card and opens it
C20_Witness ==
    /\ InOrder(trace, <<"linkClose", "granted", "scanOpen">>)
    /\ servoPos = SERVO_OPEN
    /\ servoOpen
    /\ ~hasRotated

\* ------------------------------------------------------------ booting
\* the values of a byte
ByteMod == BLANK_BYTE + 1

\* EEPROM.put writes its bytes in ascending address order, one cell at a time.
\* Byte b (1 or 2) of EEPROM.put(EEPROM_ADDR_MAGIC, MAGIC_VALUE): low byte first
WriteMagicByte(e, b) ==
    IF b = 1
    THEN [e EXCEPT !.magic = (@ \div ByteMod) * ByteMod + (MAGIC_VALUE % ByteMod)]
    ELSE [e EXCEPT !.magic = (MAGIC_VALUE \div ByteMod) * ByteMod + (@ % ByteMod)]

\* EEPROM.put(EEPROM_ADDR_NUM_CARDS, NUM_PREDEFINED_USERS)
WriteCountByte(e) == [e EXCEPT !.numCards = NUM_PREDEFINED_USERS]

\* byte n of the EEPROM.put(startAddress, card_to_store) calls of the loop
WriteCardByte(e, n) ==
    LET i == ((n - 1) \div CardBytes) + 1
        b == ((n - 1) % CardBytes) + 1
        c == CardForEEPROM(predefinedUsers[i])
    IN  IF b <= UID_MAX_SIZE THEN [e EXCEPT !.cards[i].uid[b] = c.uid[b]]
        ELSE IF b = UID_MAX_SIZE + 1 THEN [e EXCEPT !.cards[i].uidSize = c.uidSize]
        ELSE [e EXCEPT !.cards[i].name[b - UID_MAX_SIZE - 1] = c.name[b - UID_MAX_SIZE - 1]]

\* the byte writes of a seeding boot: the count, the records, the marker
NumSeedWrites == 1 + NUM_PREDEFINED_USERS * CardBytes + 2

\* a seeding that writes the marker before the count and the records
SeedByte_MarkerFirst(e, k) ==
    IF k <= 2 THEN WriteMagicByte(e, k)
    ELSE IF k = 3 THEN WriteCountByte(e)
    ELSE WriteCardByte(e, k - 3)

\* the store after byte write k of writePredefinedCardsToEEPROM() and the
\* EEPROM.put of the marker that follows it in setup()
SeedByte(e, k) ==
    IF k = 1 THEN WriteCountByte(e)
    ELSE IF k <= 1 + NUM_PREDEFINED_USERS * CardBytes THEN WriteCardByte(e, k - 1)
    ELSE WriteMagicByte(e, k - 1 - NUM_PREDEFINED_USERS * CardBytes)

\* setup() on the store e, up to the test of the marker
Booting(e) ==
    [setup(e) EXCEPT !.eeprom = e, !.numLoadedCards = 0,
                     !.registeredCards = [i \in 1..MAX_REGISTERED_CARDS |-> EmptyCard]]

\* the stores a boot can find: never written; seeded by an earlier boot; one
\* record stored under the marker; a stored count of 6 and of 255 under the
\* marker; and stores without the marker, one with its high byte alone and one
\* with records
Seeded == [writePredefinedCardsToEEPROM(BlankEEPROM) EXCEPT !.magic = MAGIC_VALUE]

StoredBefore == [Seeded EXCEPT !.numCards = 1]

CorruptCount == {[Seeded EXCEPT !.numCards = n] : n \in {MAX_REGISTERED_CARDS + 1, BLANK_BYTE}}

Stores ==
    {BlankEEPROM, Seeded, StoredBefore,
     [BlankEEPROM EXCEPT !.magic = (MAGIC_VALUE \div ByteMod) * ByteMod + BLANK_BYTE],
     [StoredBefore EXCEPT !.magic = 0]} \cup CorruptCount

\* step is <<k, cut>>: setup() is about to make byte write k of the seeding, or
\* k = Running and loop() runs; cut says the power was lost during a seeding
\* before this boot
Running == 0

Position == step[1]

Interrupted == step[2]

InitBoot ==
    \E e \in Stores :
        IF Initialized(e)
        THEN StartsAs(setup(e)) /\ step = <<Running, FALSE>>
        ELSE StartsAs(Booting(e)) /\ step = <<1, FALSE>>

\* the power is lost and comes back: setup() starts on the store as it is
PowerCycle ==
    IF Initialized(eeprom)
    THEN Commit(setup(eeprom)) /\ step' = <<Running, Position # Running>>
    ELSE Commit(Booting(eeprom)) /\ step' = <<1, Position # Running \/ Interrupted>>

\* one byte write of the seeding, not the last
SeedWrite ==
    /\ Position \in 1..(NumSeedWrites - 1)
    /\ Commit([Cur EXCEPT !.eeprom = SeedByte(eeprom, Position)])
    /\ step' = <<Position + 1, Interrupted>>

\* the last byte write of the seeding, and loadCardsFromEEPROM()
SeedDone ==
    /\ Position = NumSeedWrites
    /\ Commit(setup(SeedByte(eeprom, Position)))
    /\ step' = <<Running, Interrupted>>

LoopBoot ==
    /\ Position = Running
    /\ Pass({HIGH}, {<<>>, HeartbeatLine}, {<<>>, RegisteredUid(1), UnknownUid},
            {Clear, BlockedB})
    /\ UNCHANGED step

TickBoot == Position = Running /\ Wait(Deltas) /\ UNCHANGED step

NextBoot == PowerCycle \/ SeedWrite \/ SeedDone \/ LoopBoot \/ TickBoot

SpecBoot == InitBoot /\ [][NextBoot]_vars

\* the store holds the marker, the factory count and the factory records
FullySeeded(e) ==
    /\ e.magic = MAGIC_VALUE
    /\ e.numCards = NUM_PREDEFINED_USERS
    /\ \A i \in 1..NUM_PREDEFINED_USERS : e.cards[i] = CardForEEPROM(predefinedUsers[i])

\* the registry is the factory set, every scanCount 0
FactoryLoaded(n, cards) ==
    /\ n = NUM_PREDEFINED_USERS
    /\ \A i \in 1..NUM_PREDEFINED_USERS : cards[i] = predefinedUsers[i]

\* the registry is the factory set, whatever its scanCounts
FactoryRegistry(n, cards) ==
    /\ n = NUM_PREDEFINED_USERS
    /\ \A i \in 1..NUM_PREDEFINED_USERS :
           [cards[i] EXCEPT !.scanCount = 0] = predefinedUsers[i]

\* C21: the store changes only in a byte write of a boot that found the marker
\* absent or mismatched; no boot that finds the marker and no pass of loop()
\* changes it. When such a boot ends, the store holds the marker and the
\* factory set, as writePredefinedCardsToEEPROM and the put of the marker leave
\* it, and the loaded registry is the factory set with every scanCount 0.
C21_StoreWrittenOnlyWhenSeeding ==
    [][/\ eeprom' # eeprom
            => eeprom.magic # MAGIC_VALUE /\ Position \in 1..NumSeedWrites
       /\ (Position = NumSeedWrites /\ Position' = Running)
            => /\ FullySeeded(eeprom')
               /\ eeprom' = [writePredefinedCardsToEEPROM(eeprom)
                                 EXCEPT !.magic = MAGIC_VALUE]
               /\ FactoryLoaded(numLoadedCards', registeredCards')]_vars

\* a seeding boot on a store without the marker has written the count and the
\* records and is about to complete the marker
C21_Witness ==
    /\ Position = NumSeedWrites
    /\ eeprom.magic # MAGIC_VALUE
    /\ eeprom.numCards = NUM_PREDEFINED_USERS
    /\ \A i \in 1..NUM_PREDEFINED_USERS : eeprom.cards[i] = CardForEEPROM(predefinedUsers[i])

\* C22: on a store with the marker and a stored count above
\* MAX_REGISTERED_CARDS the controller runs loop() with an empty registry:
\* no step writes the store, no boot seeds, numLoadedCards is 0, and every
\* card a pass reads is denied and opens nothing.
C22_CorruptCountLoadsNothing ==
    [][(eeprom.magic = MAGIC_VALUE /\ eeprom.numCards > MAX_REGISTERED_CARDS)
       => /\ eeprom' = eeprom
          /\ Position' = Running
          /\ numLoadedCards' = 0
          /\ ~HasIn(trace', "granted")
          /\ ~HasIn(trace', "scanOpen")
          /\ servoOpen' = FALSE
          /\ card' # <<>> => HasIn(trace', "denied")]_vars

\* a factory card is denied on a store whose count reads 255
C22_Witness ==
    /\ eeprom.magic = MAGIC_VALUE
    /\ eeprom.numCards = BLANK_BYTE
    /\ card = RegisteredUid(1)
    /\ Has("denied")
    /\ numLoadedCards = 0

\* C23: whenever loop() runs, after whatever power losses, the store holds the
\* marker and complete records, the registry is what loadCardsFromEEPROM reads
\* from it, and every loaded name was read up to a terminator the sketch wrote:
\* the store is one that was completely stored before, untouched, or the
\* fully seeded one with the factory set loaded.
C23_NoPartialRegistry ==
    Position = Running
        => /\ eeprom.magic = MAGIC_VALUE
           /\ LET loaded == loadCardsFromEEPROM(eeprom, [i \in 1..MAX_REGISTERED_CARDS |->
                                                           EmptyCard])
              IN  /\ numLoadedCards = loaded.numLoadedCards
                  /\ \A i \in 1..MAX_REGISTERED_CARDS :
                         [registeredCards[i] EXCEPT !.scanCount = 0]
                             = loaded.registeredCards[i]
           /\ \A i \in 1..numLoadedCards : Terminated(eeprom.cards[i].name)
           /\ \/ eeprom \in Stores
              \/ FullySeeded(eeprom) /\ FactoryRegistry(numLoadedCards, registeredCards)

\* loop() runs on the factory set after a boot that followed a power loss
\* during the seeding
C23_Witness ==
    /\ Position = Running
    /\ Interrupted
    /\ IsPass
    /\ FactoryRegistry(numLoadedCards, registeredCards)

\* ------------------------------------------------------------ the link
\* names a registry can hold: one character, digits only, with a blank, of
\* MAX_NAME_LENGTH characters, with a leading blank
LinkNames ==
    << <<"A">>,
       <<"4", "2">>,
       predefinedUsers[1].name,
       <<"S", "T", "A", "T", "I", "O", "N", " ", "M", "A", "S", "T", "E", "R", " ", "2">>,
       <<" ", "x">> >>

\* scanCounts by position: all 0, all different, all at the top of the range
ScanPatterns ==
    { [i \in 1..MAX_REGISTERED_CARDS |-> 0],
      [i \in 1..MAX_REGISTERED_CARDS |-> i * 10 + i],
      [i \in 1..MAX_REGISTERED_CARDS |-> INT_MAX] }

\* a registry of k cards
LinkRegistry(k, counts) ==
    [i \in 1..MAX_REGISTERED_CARDS |->
        IF i <= k THEN [EmptyCard EXCEPT !.name = LinkNames[i], !.scanCount = counts[i]]
        ELSE EmptyCard]

\* the vehicle with these counters and this registry, talking to a station
\* that holds the snapshot prev
Vehicle(c, p, o, k, counts, prev) ==
    [setup(BlankEEPROM) EXCEPT !.passengerCount = c, !.emergencyPressCount = p,
                               !.overloadCount = o, !.numLoadedCards = k,
                               !.registeredCards = LinkRegistry(k, counts),
                               !.station = prev]

\* a station that holds a snapshot with five users
OldSnapshot ==
    stationReceive(StationBoot,
                   AdminLine(Vehicle(4, 1, 1, MAX_REGISTERED_CARDS,
                                     [i \in 1..MAX_REGISTERED_CARDS |-> i], StationBoot)))

InitLink ==
    /\ step = 0
    /\ \E c \in {0, OVERLOAD_THRESHOLD + 1, INT_MAX, -INT_MAX - 1},
          p \in {0, 3, INT_MAX},
          o \in {0, 12},
          k \in 0..MAX_REGISTERED_CARDS,
          counts \in ScanPatterns,
          prev \in {StationBoot, OldSnapshot} :
           StartsAs(Vehicle(c, p, o, k, counts, prev))

\* sendAdminData() on the vehicle; the station reads the two lines it prints
Transmit ==
    /\ LET s == sendAdminData([Cur EXCEPT !.trace = <<>>, !.tx = <<>>])
       IN  Commit([s EXCEPT !.station = stationReceiveAll(s.station, s.tx)])
    /\ UNCHANGED step

\* the lines of the last transmission reach the station once more
ReceiveAgain ==
    /\ tx # <<>>
    /\ Commit([Cur EXCEPT !.station = stationReceiveAll(station, tx),
                          !.trace = <<"again">>])
    /\ UNCHANGED step

NextLink == Transmit \/ ReceiveAgain

SpecLink == InitLink /\ [][NextLink]_vars

\* the station holds the vehicle's counters and name/scanCount pairs
RoundTrip ==
    /\ station.dataReceived
    /\ station.passengerCount = passengerCount
    /\ station.emergencyCount = emergencyPressCount
    /\ station.overloadCount = overloadCount
    /\ PairsOf(SubSeq(station.users, 1, station.numUsers))
           = PairsOf(SubSeq(registeredCards, 1, numLoadedCards))
    /\ station.saved = Saved(station)

\* C24: once the station has read a snapshot line sendAdminData printed, its
\* passengerCount, emergencyCount and overloadCount are the vehicle's
\* passengerCount, emergencyPressCount and overloadCount and its users are the
\* vehicle's name/scanCount pairs in order, whatever snapshot it held before;
\* reading the same lines again changes nothing at the station.
C24_SnapshotRoundTrip ==
    [][/\ tx' # <<>> => RoundTrip'
       /\ (tx # <<>> /\ tx' = tx) => station' = station]_vars

\* the station held five users and now holds the two the vehicle sent, the
\* second with the largest scanCount, after reading the lines twice
C24_Witness ==
    /\ Has("again")
    /\ numLoadedCards = 2
    /\ station.numUsers = 2
    /\ station.users[2] = [name |-> LinkNames[2], scanCount |-> INT_MAX]
    /\ station.users[MAX_USERS].name = LinkNames[MAX_USERS]
    /\ station.passengerCount = -INT_MAX - 1

\* ------------------------------------------------------------ the latch
\* C25: after boot and after every pass the overload latch agrees with the
\* threshold test: isOverloaded holds exactly when passengerCount is above 5.
C25_LatchAgreesWithThreshold ==
    isOverloaded <=> passengerCount > OVERLOAD_THRESHOLD

\* an exit brought occupancy back to the threshold after an overload
C25_Witness ==
    /\ Has("exit")
    /\ passengerCount = OVERLOAD_THRESHOLD
    /\ overloadCount = 1
    /\ ~isOverloaded

\* ------------------------------------------------------------ the close timer
\* C26: at a link-opened gate and with no emergency, a pass that reads a line,
\* heartbeat or not, re-arms the close timer and leaves the gate open, and a
\* pass closes the gate only when the last line was read TIMEOUT_MS or longer
\* ago: lines that follow each other faster keep the gate open, also with both
\* sensors clear.
C26_LinesKeepGateOpen ==
    [][(IsPass' /\ hasRotated /\ ~emergencyMode')
       => /\ rx' # <<>>
                => hasRotated' /\ servoPos' = SERVO_OPEN /\ sinceLastMessage' = 0
          /\ (~hasRotated' \/ servoPos' # SERVO_OPEN)
                => rx' = <<>> /\ sinceLine >= TIMEOUT_MS]_vars

\* a line that is not the heartbeat re-armed the timer of a link-opened gate
\* with both sensors clear
C26_Witness ==
    /\ hasRotated
    /\ ~servoOpen
    /\ rx = OtherLine
    /\ ~Has("settle")
    /\ reading1 = HIGH /\ reading2 = HIGH
    /\ servoPos = SERVO_OPEN
    /\ sinceLastMessage = 0

====
